---- MODULE Spec2Model ----
(***************************************************************************)
(* UCT Monte Carlo tree search (UCT.py): Node, UCT and the match driver    *)
(* UCTPlayGame, played on the Nim game state.                              *)
(*                                                                         *)
(* Nodes are heap objects: `tree` is the sequence of the Node objects in   *)
(* order of construction, a node reference is its index and None is -1.    *)
(* Game results 0.0 / 1.0 are the integers 0 / 1.  Real-valued selection   *)
(* keys are computed in fixed point (Scale = 1000, weights in hundredths). *)
(***************************************************************************)
EXTENDS Integers, Sequences, FiniteSets, TLC

\* ------------------------------------------------------------------ bounds
MaxChips == 4
MaxIter == 6
MaxPlayIter == 2

\* --------------------------------------------------------------- constants
None == -1
MaxTake == 3
Scale == 1000
Hundred == 100

VARIABLES
    caller,                  \* "UCT": UCT is called directly; "UCTPlayGame": by the match driver
    pc,                      \* position in the code
    live,                    \* UCTPlayGame: `state`, the authoritative game state
    player1_uct_iter,        \* UCTPlayGame arguments
    player2_uct_iter,
    arg_std_weight,
    arg_std_function,
    rootstate,               \* UCT arguments
    itermax,
    std_weight,
    selected_std_function,
    i,                       \* UCT: loop index of `for i in range(itermax)`
    node,                    \* UCT: `node`
    state,                   \* UCT: the working clone `state`
    tree,                    \* the Node objects; rootnode is tree[1]
    m,                       \* the move UCT returned (None before)
    error,                   \* the exception raised to the caller ("" if none)
    to_return,               \* UCTPlayGame's result
    before,                  \* history: `tree` when the current iteration started
    leaf                     \* history: the node backpropagation started at

vars == <<caller, pc, live, player1_uct_iter, player2_uct_iter, arg_std_weight,
          arg_std_function, rootstate, itermax, std_weight, selected_std_function,
          i, node, state, tree, m, error, to_return, before, leaf>>

\* ------------------------------------------------------- GameState (Nim)
\* A Nim state: `chips` left, players take 1..MaxTake chips in turn, and the
\* player who takes the last chip wins.
GameStates == [chips : 0..MaxChips, playerJustMoved : {1, 2}]

MinOf(a, b) == IF a < b THEN a ELSE b

Clone(s) == [chips |-> s.chips, playerJustMoved |-> s.playerJustMoved]

DoMove(s, move) ==
    [chips |-> s.chips - move, playerJustMoved |-> 3 - s.playerJustMoved]

GetMoves(s) == [k \in 1..MinOf(MaxTake, s.chips) |-> k]

GetResult(s, playerjm) == IF s.playerJustMoved = playerjm THEN 1 ELSE 0

\* ------------------------------------------------------------ arithmetic
RECURSIVE SumSeq(_)
SumSeq(s) == IF s = <<>> THEN 0 ELSE Head(s) + SumSeq(Tail(s))

RECURSIVE SqrtSearch(_, _, _)
SqrtSearch(n, lo, hi) ==
    IF lo >= hi THEN lo
    ELSE LET mid == (lo + hi + 1) \div 2
         IN IF mid * mid <= n THEN SqrtSearch(n, mid, hi)
            ELSE SqrtSearch(n, lo, mid - 1)

\* floor(sqrt(n))
sqrt(n) == SqrtSearch(n, 0, 3000)

\* Scale * Scale * ln(n), rounded, for 1 <= n <= 12
LogTable ==
    <<0, 693147, 1098612, 1386294, 1609438, 1791759,
      1945910, 2079442, 2197225, 2302585, 2397895, 2484907>>

log(n) == LogTable[n]

Abs(x) == IF x < 0 THEN -x ELSE x

\* ------------------------------------------------------------------ Node
NewNode(move, parent, s) ==
    [move |-> move,
     parentNode |-> parent,
     childNodes |-> <<>>,
     wins |-> 0,
     visits |-> 0,
     untriedMoves |-> GetMoves(s),
     playerJustMoved |-> s.playerJustMoved,
     rollouts_counter |-> <<>>,
     last_rollout_res |-> None]

\* a removal that drops the head of the list whatever x is
RemoveHead(s, x) == Tail(s)

\* list.remove(x): drop the first occurrence of x
Remove(s, x) ==
    LET k == CHOOSE j \in 1..Len(s) : s[j] = x /\ \A h \in 1..(j - 1) : s[h] # x
    IN SubSeq(s, 1, k - 1) \o SubSeq(s, k + 1, Len(s))

\* Counter: the (result, count) pairs of the results seen so far
CounterKeys(c) == {c[k][1] : k \in 1..Len(c)}

\* a counter that records a result as seen once, however often it was seen
CounterSet(c, result) ==
    IF result \in CounterKeys(c) THEN c ELSE Append(c, <<result, 1>>)

CounterAdd(c, result) ==
    IF result \in CounterKeys(c)
    THEN [k \in 1..Len(c) |->
            IF c[k][1] = result THEN <<c[k][1], c[k][2] + 1>> ELSE c[k]]
    ELSE Append(c, <<result, 1>>)

CounterTotal(c) == SumSeq([k \in 1..Len(c) |-> c[k][2]])

\* Node.Update
Update(n, result) ==
    [n EXCEPT !.visits = @ + 1,
              !.wins = @ + result,
              !.rollouts_counter = CounterAdd(@, result),
              !.last_rollout_res = result]

\* Node.AddChild on tree[p]: the tree with the new node appended
AddChild(t, p, move, s) ==
    LET n == NewNode(move, p, s)
        id == Len(t) + 1
    IN Append([t EXCEPT ![p].untriedMoves = Remove(@, move),
                        ![p].childNodes = Append(@, id)], n)

\* AddChild returning the node it was called on
AddChildReturnsSelf(t, p) == p

\* the node AddChild returns: the one it appended to tree[p].childNodes
AddChildResult(t, p) == t[p].childNodes[Len(t[p].childNodes)]

\* ------------------------------------------------------------ heuristics
zero_function(n) == 0

\* Scale * mean of the node's rollout results
MeanOf(n) ==
    LET c == n.rollouts_counter
    IN (Scale * SumSeq([k \in 1..Len(c) |-> c[k][1] * c[k][2]])) \div n.visits

regular_std(n) ==
    LET c == n.rollouts_counter
        mean == MeanOf(n)
        std == SumSeq([k \in 1..Len(c) |->
                         c[k][2] * (Scale * c[k][1] - mean) * (Scale * c[k][1] - mean)])
    IN sqrt(std \div n.visits)

last_res_std(n) == Abs(MeanOf(n) - Scale * n.last_rollout_res)

Heuristic(f, n) ==
    CASE f = "regular_std" -> regular_std(n)
      [] f = "last_res_std" -> last_res_std(n)
      [] OTHER -> zero_function(n)

\* The key of child c of parent p in UCTSelectChild, times Scale * Hundred
SelectKey(p, c, f, w) ==
    (Hundred - w) * ((Scale * c.wins) \div c.visits
                     + sqrt((2 * log(p.visits)) \div c.visits))
    + w * Heuristic(f, c)

\* sorted(ids, key)[-1]: the sort is stable, so among the elements of the
\* greatest key the last one of the list is returned
SortedLast(ids, key) ==
    ids[CHOOSE j \in 1..Len(ids) :
          \A k \in 1..Len(ids) :
              /\ key[ids[k]] <= key[ids[j]]
              /\ (k > j => key[ids[k]] < key[ids[j]])]

\* the exception the key of the first child raises, then that of the others
SelectError(t, p) ==
    LET ids == t[p].childNodes
    IN IF t[ids[1]].visits = 0 THEN "ZeroDivisionError"
       ELSE IF t[p].visits = 0 THEN "ValueError"
       ELSE IF \E k \in 1..Len(ids) : t[ids[k]].visits = 0 THEN "ZeroDivisionError"
       ELSE ""

UCTSelectChild(t, p, f, w) ==
    LET ids == t[p].childNodes
        key == [c \in {ids[k] : k \in 1..Len(ids)} |->
                  SelectKey(t[p], t[c], f, w)]
    IN SortedLast(ids, key)

\* the first element of the sorted list: the least visited child
LeastVisited(t) ==
    LET ids == t[1].childNodes
        key == [c \in {ids[k] : k \in 1..Len(ids)} |-> 0 - t[c].visits]
    IN SortedLast(ids, key)

\* sorted(rootnode.childNodes, key = lambda c: c.visits)[-1]
MostVisited(t) ==
    LET ids == t[1].childNodes
        key == [c \in {ids[k] : k \in 1..Len(ids)} |-> t[c].visits]
    IN SortedLast(ids, key)

\* ------------------------------------------------------------------- UCT
\* a selection loop that forgets to test untriedMoves
SelectCondChildrenOnly(n) == n.childNodes # <<>>

\* the loop condition of the selection phase
SelectCond(n) == n.untriedMoves = <<>> /\ n.childNodes # <<>>

\* a backpropagation that stops below the root
BackpropStopsBelowRoot(t, n) == n # None /\ t[n].parentNode # None

\* the loop condition of backpropagation
BackpropCond(t, n) == n # None

\* every node updated with the result of the player who moved last
ResultForLastMover(s, n) == GetResult(s, s.playerJustMoved)

\* the result a node is updated with: the terminal state's, from the
\* viewpoint of the node's own playerJustMoved
ResultFor(s, n) == GetResult(s, n.playerJustMoved)

\* the (selected_std_function, std_weight) pairs searched with: the default
\* of UCT, and each heuristic at weight 0.5.  (At weight 0 every function
\* gives the keys of the default.)
StdConfigs == {<<"zero", 0>>, <<"regular_std", 50>>, <<"last_res_std", 50>>}

InitUCT ==
    /\ caller = "UCT"
    /\ pc = "UCT"
    /\ rootstate \in GameStates
    /\ itermax \in 1..MaxIter
    /\ \E c \in StdConfigs : selected_std_function = c[1] /\ std_weight = c[2]
    /\ live = rootstate
    /\ player1_uct_iter = None
    /\ player2_uct_iter = None
    /\ arg_std_weight = std_weight
    /\ arg_std_function = selected_std_function

InitPlayGame ==
    /\ caller = "UCTPlayGame"
    /\ pc = "play"
    /\ live \in {s \in GameStates : s.playerJustMoved = 2}
    /\ player1_uct_iter \in 1..MaxPlayIter
    /\ player2_uct_iter \in 1..MaxPlayIter
    /\ \E c \in StdConfigs : arg_std_function = c[1] /\ arg_std_weight = c[2]
    /\ rootstate = live
    /\ itermax = None
    /\ selected_std_function = "zero"
    /\ std_weight = 0

Init ==
    /\ InitUCT \/ InitPlayGame
    /\ i = 0
    /\ node = None
    /\ state = rootstate
    /\ tree = <<>>
    /\ m = None
    /\ error = ""
    /\ to_return = None
    /\ before = <<>>
    /\ leaf = None

\* rootnode = Node(state = rootstate)
UCTEnter ==
    /\ pc = "UCT"
    /\ tree' = <<NewNode(None, None, rootstate)>>
    /\ i' = 0
    /\ pc' = "for"
    /\ before' = <<>>
    /\ UNCHANGED <<caller, live, player1_uct_iter, player2_uct_iter, arg_std_weight,
                   arg_std_function, rootstate, itermax, std_weight,
                   selected_std_function, node, state, m, error, to_return, leaf>>

\* for i in range(itermax): node = rootnode; state = rootstate.Clone()
NextIter ==
    /\ pc = "for"
    /\ i < itermax
    /\ node' = 1
    /\ state' = Clone(rootstate)
    /\ before' = tree
    /\ leaf' = None
    /\ pc' = "select"
    /\ UNCHANGED <<caller, live, player1_uct_iter, player2_uct_iter, arg_std_weight,
                   arg_std_function, rootstate, itermax, std_weight,
                   selected_std_function, i, tree, m, error, to_return>>

\* Select: one turn of the while loop.  Computing the keys raises
\* ZeroDivisionError on a child without visits and ValueError on log(0).
Select ==
    /\ pc = "select"
    /\ SelectCond(tree[node])
    /\ IF SelectError(tree, node) # ""
       THEN /\ error' = SelectError(tree, node)
            /\ pc' = "raised"
            /\ UNCHANGED <<node, state>>
       ELSE /\ node' = UCTSelectChild(tree, node, selected_std_function, std_weight)
            /\ state' = DoMove(state, tree[node'].move)
            /\ UNCHANGED <<pc, error>>
    /\ UNCHANGED <<caller, live, player1_uct_iter, player2_uct_iter, arg_std_weight,
                   arg_std_function, rootstate, itermax, std_weight,
                   selected_std_function, i, tree, m, to_return, before, leaf>>

\* Expand: m = random.choice(node.untriedMoves)
Expand ==
    /\ pc = "select"
    /\ ~SelectCond(tree[node])
    /\ tree[node].untriedMoves # <<>>
    /\ \E k \in 1..Len(tree[node].untriedMoves) :
          LET move == tree[node].untriedMoves[k]
              s == DoMove(state, move)
              t == AddChild(tree, node, move, s)
          IN /\ state' = s
             /\ tree' = t
             /\ node' = AddChildResult(t, node)
    /\ pc' = "rollout"
    /\ UNCHANGED <<caller, live, player1_uct_iter, player2_uct_iter, arg_std_weight,
                   arg_std_function, rootstate, itermax, std_weight,
                   selected_std_function, i, m, error, to_return, before, leaf>>

\* the node reached is terminal: nothing to expand
NoExpand ==
    /\ pc = "select"
    /\ ~SelectCond(tree[node])
    /\ tree[node].untriedMoves = <<>>
    /\ pc' = "rollout"
    /\ UNCHANGED <<caller, live, player1_uct_iter, player2_uct_iter, arg_std_weight,
                   arg_std_function, rootstate, itermax, std_weight,
                   selected_std_function, i, node, state, tree, m, error, to_return,
                   before, leaf>>

\* Rollout: state.DoMove(random.choice(state.GetMoves()))
Rollout ==
    /\ pc = "rollout"
    /\ GetMoves(state) # <<>>
    /\ \E k \in 1..Len(GetMoves(state)) : state' = DoMove(state, GetMoves(state)[k])
    /\ UNCHANGED <<caller, pc, live, player1_uct_iter, player2_uct_iter, arg_std_weight,
                   arg_std_function, rootstate, itermax, std_weight,
                   selected_std_function, i, node, tree, m, error, to_return, before, leaf>>

RolloutEnd ==
    /\ pc = "rollout"
    /\ GetMoves(state) = <<>>
    /\ leaf' = node
    /\ pc' = "backprop"
    /\ UNCHANGED <<caller, live, player1_uct_iter, player2_uct_iter, arg_std_weight,
                   arg_std_function, rootstate, itermax, std_weight,
                   selected_std_function, i, node, state, tree, m, error, to_return,
                   before>>

\* Backpropagate: node.Update(...); node = node.parentNode
Backprop ==
    /\ pc = "backprop"
    /\ BackpropCond(tree, node)
    /\ tree' = [tree EXCEPT ![node] = Update(@, ResultFor(state, @))]
    /\ node' = tree[node].parentNode
    /\ UNCHANGED <<caller, pc, live, player1_uct_iter, player2_uct_iter, arg_std_weight,
                   arg_std_function, rootstate, itermax, std_weight,
                   selected_std_function, i, state, m, error, to_return, before, leaf>>

IterEnd ==
    /\ pc = "backprop"
    /\ ~BackpropCond(tree, node)
    /\ i' = i + 1
    /\ pc' = "for"
    /\ UNCHANGED <<caller, live, player1_uct_iter, player2_uct_iter, arg_std_weight,
                   arg_std_function, rootstate, itermax, std_weight,
                   selected_std_function, node, state, tree, m, error, to_return,
                   before, leaf>>

\* return sorted(rootnode.childNodes, key = lambda c: c.visits)[-1].move
\* (indexing the empty list raises IndexError)
Return ==
    /\ pc = "for"
    /\ i >= itermax
    /\ IF tree[1].childNodes = <<>>
       THEN /\ error' = "IndexError"
            /\ pc' = "raised"
            /\ m' = m
       ELSE /\ m' = tree[MostVisited(tree)].move
            /\ pc' = "returned"
            /\ error' = error
    /\ UNCHANGED <<caller, live, player1_uct_iter, player2_uct_iter, arg_std_weight,
                   arg_std_function, rootstate, itermax, std_weight,
                   selected_std_function, i, node, state, tree, to_return, before, leaf>>

\* ----------------------------------------------------------- UCTPlayGame
\* while (state.GetMoves() != []): m = UCT(...)
PlayTurn ==
    /\ caller = "UCTPlayGame"
    /\ pc = "play"
    /\ GetMoves(live) # <<>>
    /\ rootstate' = live
    /\ IF live.playerJustMoved = 1
       THEN /\ itermax' = player1_uct_iter
            /\ selected_std_function' = "zero"
            /\ std_weight' = 0
       ELSE /\ itermax' = player2_uct_iter
            /\ selected_std_function' = arg_std_function
            /\ std_weight' = arg_std_weight
    /\ pc' = "UCT"
    /\ UNCHANGED <<caller, live, player1_uct_iter, player2_uct_iter, arg_std_weight,
                   arg_std_function, i, node, state, tree, m, error, to_return,
                   before, leaf>>

\* state.DoMove(m); the search's tree is dropped with UCT's frame
PlayDoMove ==
    /\ caller = "UCTPlayGame"
    /\ pc = "returned"
    /\ live' = DoMove(live, m)
    /\ pc' = "play"
    /\ tree' = <<>>
    /\ before' = <<>>
    /\ node' = None
    /\ leaf' = None
    /\ i' = 0
    /\ state' = live'
    /\ UNCHANGED <<caller, player1_uct_iter, player2_uct_iter, arg_std_weight,
                   arg_std_function, rootstate, itermax, std_weight,
                   selected_std_function, m, error, to_return>>

\* the game is over: classify the outcome.  to_return is held doubled, so
\* that the 1.5 of a game nobody wins is 3.
PlayEnd ==
    /\ caller = "UCTPlayGame"
    /\ pc = "play"
    /\ GetMoves(live) = <<>>
    /\ to_return' =
          IF GetResult(live, live.playerJustMoved) = 1 THEN 2 * live.playerJustMoved
          ELSE IF GetResult(live, live.playerJustMoved) = 0
               THEN 2 * (3 - live.playerJustMoved)
          ELSE 3
    /\ pc' = "done"
    /\ UNCHANGED <<caller, live, player1_uct_iter, player2_uct_iter, arg_std_weight,
                   arg_std_function, rootstate, itermax, std_weight,
                   selected_std_function, i, node, state, tree, m, error, before, leaf>>

Next ==
    \/ UCTEnter
    \/ NextIter
    \/ Select
    \/ Expand
    \/ NoExpand
    \/ Rollout
    \/ RolloutEnd
    \/ Backprop
    \/ IterEnd
    \/ Return
    \/ PlayTurn
    \/ PlayDoMove
    \/ PlayEnd

Spec == Init /\ [][Next]_vars

\* ---------------------------------------------------------------- claims
Finished == pc \in {"returned", "raised"}

Boundary == pc = "for" \/ Finished

Nodes == 1..Len(tree)

Range(s) == {s[k] : k \in 1..Len(s)}

ChildVisits(t, p) ==
    SumSeq([k \in 1..Len(t[p].childNodes) |-> t[t[p].childNodes[k]].visits])

\* the game state a node was constructed from
RECURSIVE StateOf(_, _)
StateOf(t, n) ==
    IF t[n].parentNode = None THEN rootstate
    ELSE DoMove(StateOf(t, t[n].parentNode), t[n].move)

\* the nodes from n up to the root, n included
RECURSIVE PathToRoot(_, _)
PathToRoot(t, n) ==
    IF n = None THEN {} ELSE {n} \cup PathToRoot(t, t[n].parentNode)

CountOf(c, result) ==
    SumSeq([k \in 1..Len(c) |-> IF c[k][1] = result THEN c[k][2] ELSE 0])

\* C1: for a root with a legal move, when UCT completes the loop has run
\* exactly itermax iterations, the root's visits is itermax and the visits of
\* the root's children sum to itermax (and to the iterations run so far at
\* every iteration boundary).
C1_RootVisitsEqualBudget ==
    (tree # <<>> /\ GetMoves(rootstate) # <<>>) =>
        /\ Boundary => (tree[1].visits = i /\ ChildVisits(tree, 1) = i)
        /\ Finished => i = itermax

C1_Witness ==
    /\ pc = "returned"
    /\ itermax >= 3
    /\ tree[1].visits = itermax
    /\ Len(tree[1].childNodes) >= 2

\* C2: on a terminal root UCT raises without running an iteration and
\* without updating the root's statistics.
C2_TerminalRootRaisesAtOnce ==
    (tree # <<>> /\ GetMoves(rootstate) = <<>>) =>
        /\ pc \in {"for", "raised"}
        /\ i = 0
        /\ tree[1].visits = 0
        /\ m = None

\* C3: for a root with a legal move UCT returns (it does not raise), and the
\* move returned is the move of a child of the root that no other child of
\* the root exceeds in visits, and is a legal move of rootstate.
C3_ReturnsMostVisited ==
    /\ (Finished /\ GetMoves(rootstate) # <<>>) => pc = "returned"
    /\ pc = "returned" =>
          /\ \E c \in Range(tree[1].childNodes) :
                /\ tree[c].move = m
                /\ \A d \in Range(tree[1].childNodes) : tree[d].visits <= tree[c].visits
          /\ m \in Range(GetMoves(rootstate))

C3_Witness ==
    /\ pc = "returned"
    /\ \E c, d \in Range(tree[1].childNodes) :
          /\ tree[c].visits < tree[d].visits
          /\ tree[d].move = m

\* C4: whenever UCTSelectChild is about to be called on a node, the node has
\* a child, its visits is at least 1 and every child's visits is at least 1;
\* no key computation ever raises.
C4_SelectNeverDividesByZero ==
    /\ (pc = "select" /\ SelectCond(tree[node])) =>
          /\ tree[node].childNodes # <<>>
          /\ tree[node].visits >= 1
          /\ \A c \in Range(tree[node].childNodes) : tree[c].visits >= 1
    /\ error \notin {"ZeroDivisionError", "ValueError"}

C4_Witness ==
    /\ pc = "select"
    /\ SelectCond(tree[node])
    /\ node # 1
    /\ tree[node].visits >= 2

\* C5: in every node the children's moves are pairwise distinct, none is in
\* untriedMoves, and together with untriedMoves they are exactly the legal
\* moves of the state the node was made from; an expansion takes exactly one
\* move of one node from untriedMoves to the children.
C5_MovesPartition ==
    /\ \A n \in Nodes :
          LET kids == tree[n].childNodes
              untried == tree[n].untriedMoves
          IN /\ \A a, b \in 1..Len(kids) :
                    tree[kids[a]].move = tree[kids[b]].move => a = b
             /\ \A a, b \in 1..Len(untried) : untried[a] = untried[b] => a = b
             /\ {tree[c].move : c \in Range(kids)} \cap Range(untried) = {}
             /\ {tree[c].move : c \in Range(kids)} \cup Range(untried)
                   = Range(GetMoves(StateOf(tree, n)))
    /\ (pc \in {"for", "rollout", "backprop"} /\ before # <<>>) =>
          /\ Len(tree) <= Len(before) + 1
          /\ \A n \in 1..Len(before) :
                LET grown == IF Len(tree) > Len(before) /\ tree[Len(tree)].parentNode = n
                             THEN 1 ELSE 0
                IN /\ Len(tree[n].childNodes) = Len(before[n].childNodes) + grown
                   /\ Len(tree[n].untriedMoves) + grown = Len(before[n].untriedMoves)

C5_Witness ==
    /\ pc = "for"
    /\ \E n \in Nodes :
          /\ n # 1
          /\ Len(tree[n].childNodes) >= 1
          /\ Len(tree[n].untriedMoves) >= 1

C8_BackpropUpdatesPathOnly ==
    (pc = "for" /\ i >= 1) =>
        /\ GetMoves(state) = <<>>
        /\ IF Len(tree) > Len(before) THEN leaf = Len(tree)
           ELSE tree[leaf].untriedMoves = <<>> /\ tree[leaf].childNodes = <<>>
        /\ 1 \in PathToRoot(tree, leaf)
        /\ \A n \in Nodes :
              LET old == IF n <= Len(before) THEN before[n]
                         ELSE NewNode(tree[n].move, tree[n].parentNode, StateOf(tree, n))
                  r == IF state.playerJustMoved = tree[n].playerJustMoved THEN 1 ELSE 0
              IN IF n \in PathToRoot(tree, leaf)
                 THEN /\ tree[n].visits = old.visits + 1
                      /\ tree[n].wins = old.wins + r
                      /\ tree[n].last_rollout_res = r
                      /\ \A x \in {0, 1} :
                            CountOf(tree[n].rollouts_counter, x)
                               = CountOf(old.rollouts_counter, x) + (IF x = r THEN 1 ELSE 0)
                 ELSE /\ n <= Len(before)
                      /\ tree[n].visits = old.visits
                      /\ tree[n].wins = old.wins
                      /\ tree[n].rollouts_counter = old.rollouts_counter
                      /\ tree[n].last_rollout_res = old.last_rollout_res

C8_Witness ==
    /\ pc = "for"
    /\ i >= 1
    /\ tree[leaf].parentNode \notin {None, 1}
    /\ \E n \in Nodes : n \notin PathToRoot(tree, leaf) /\ tree[n].visits >= 1
    /\ \E a, b \in PathToRoot(tree, leaf) :
          tree[a].last_rollout_res # tree[b].last_rollout_res

\* C9: in UCTPlayGame the search that chooses the move of the player to move
\* runs with that player's budget: player1_uct_iter for player 1,
\* player2_uct_iter for player 2.
C9_BudgetOfPlayerToMove ==
    (caller = "UCTPlayGame" /\ pc \notin {"play", "done"}) =>
        itermax = IF 3 - rootstate.playerJustMoved = 1 THEN player1_uct_iter
                  ELSE player2_uct_iter

\* C10: at every iteration boundary a node other than the root whose position
\* has a legal move has visits = 1 + the visits of its children, and the
\* children of a node with untried moves have no children.
C10_VisitConservation ==
    Boundary =>
        \A n \in Nodes :
            /\ (n # 1 /\ GetMoves(StateOf(tree, n)) # <<>>) =>
                  tree[n].visits = 1 + ChildVisits(tree, n)
            /\ tree[n].untriedMoves # <<>> =>
                  \A c \in Range(tree[n].childNodes) : tree[c].childNodes = <<>>

C10_Witness ==
    /\ pc = "for"
    /\ \E n \in Nodes :
          /\ n # 1
          /\ tree[n].visits >= 3
          /\ tree[n].childNodes # <<>>
    /\ \E n \in Nodes :
          /\ tree[n].untriedMoves # <<>>
          /\ tree[n].childNodes # <<>>

====
